---- MODULE Spec2Model ----
(***************************************************************************)
(* Model of python-whisper-transcriber: the durable transcript queue      *)
(* (src/queue.py), the connectivity-aware sender (src/sender.py), the     *)
(* segmenter (src/vad.py), the transcriber (src/transcribe.py) and the    *)
(* orchestrator (main.py).                                                 *)
(*                                                                         *)
(* Time is counted in half seconds, so that the backoff of mark_as_failed *)
(* on a row with attempts = 0 (base * 2 ** -1 = 0.5 s) is an integer.     *)
(* A row's created_at is its insertion rank: rows are inserted one at a   *)
(* time and datetime.now() has microsecond resolution.                    *)
(***************************************************************************)
EXTENDS Integers, Sequences, FiniteSets, Bags, TLC

VARIABLES
    queue,         \* the transcript_queue table: id -> row
    next_id,       \* number of rows ever inserted (the next fresh id)
    now,           \* wall clock, in half seconds
    is_online,     \* TranscriptSender.is_online
    active_sends,  \* TranscriptSender.active_sends
    threads,       \* bag of running _send_transcript_thread threads
    dpc,           \* position of the _sender_loop thread
    d_retry,       \* _process_pending_items: the local retry_items
    script,        \* answers the server gives to the next POSTs, in order
    srv_ok,        \* TRUE: after the script the server answers 200 only
    manual,        \* number of operator calls made so far
    spawned,       \* number of send threads started so far
    max_retries,           \* TranscriptQueue.max_retries
    max_concurrent_sends,  \* TranscriptSender.max_concurrent_sends
    lim,           \* the bounds of the run: rows, clock, threads, calls, answers
    stop_flag,     \* TranscriptSender.stop_flag, the Event its two loops test
    vad,           \* the VAD object: its fields, buffers as numbers of chunks
    ms,            \* time.time() as the VAD reads it, in milliseconds
    vpc,           \* positions of the _recording_loop thread and of VAD.stop()
    wavs,          \* numbers of the audio_NNNN.wav files in temp_dir
    sink,          \* the arguments on_audio_ready was called with, in order
    heard,         \* per recording: milliseconds from its first to its last speech chunk
    tasks,         \* files with a _process_audio task waiting on the event loop
    tr,            \* the Transcriber object and the position of transcribe_audio
    counter_file,  \* the number in output_dir/.counter, NULL when there is no file
    written,       \* the numbers NNNN of the NNNN.txt writes, in order
    result,        \* how the last transcribe_audio call ended
    setup,         \* configured whisper_backend and the backends that can load
    orch           \* the WhisperTranscriber object and the position of its stop()

\* the queue and the sender, but for the sender's stop_flag
dispatch == <<queue, next_id, now, is_online, active_sends, threads, dpc, d_retry,
              script, srv_ok, manual, spawned, max_retries, max_concurrent_sends, lim>>

\* the queue and the sender
delivery == <<dispatch, stop_flag>>

\* the segmenter, the transcriber and the orchestrator
pipeline == <<vad, ms, vpc, wavs, sink, heard, tasks,
              tr, counter_file, written, result, setup, orch>>

\* what the segmenter's steps leave alone
beyond_vad == <<delivery, tr, counter_file, written, result, setup, orch>>

vars == <<delivery, pipeline>>

-----------------------------------------------------------------------------
(* Bounds of the model.  Each specification sets lim from its own bounds:   *)
(* the number of rows added, the last clock value, the number of send      *)
(* threads ever started and the number of calls from outside the loops.    *)

\* Spec: everything, from an empty store
MaxItems == 2

MaxTime == 2

MaxSpawns == 2

MaxManual == 1

\* the max_retries and max_concurrent_sends Spec, SpecLoop and SpecDispatch run with
MainRetries == 2

MainConcurrent == 1

\* SpecLoop: the loops and the send threads alone
LoopItems == 1

LoopTime == 2

LoopSpawns == 3

\* SpecTransient: answers 503, 503, 200
ScenarioItems == 1

ScenarioTime == 2

ScenarioSpawns == 3

\* SpecHappy: every answer is 200
HappyItems == 2

HappyTime == 1

HappySpawns == 2

\* SpecDispatch: force_send and cleanup on a store holding a delivered row
DispatchTime == 1

DispatchSpawns == 2

DispatchManual == 2

\* SpecFifo: records waiting in the store when the sender comes online
FifoItems == 2

FifoTime == 1

FifoSpawns == 2

\* SpecBacklog: section 8, scenario 4 (its three records are in the store)
BacklogTime == 1

BacklogSpawns == 2

\* SpecErrors: one record against a server that fails in every retryable way
ErrorsTime == 1

ErrorsSpawns == 2

\* SpecBackoff: one record that already failed up to BackoffRetries - 1 times,
\* with max_retries = BackoffRetries (large enough for the delay to reach
\* max_retry_delay)
BackoffRetries == 12

BackoffTime == 1

BackoffSpawns == 1

\* SpecRetry: retry_item on one record that failed up to MainRetries - 1 times
RetryTime == 1

RetrySpawns == 1

RetryManual == 1

\* SpecStore: every operation on a store holding a delivered row
StoreTime == 1

StoreSpawns == 1

StoreManual == 2

\* SpecIds: records added with ids that may have been used before
IdsItems == 3

IdsTime == 1

IdsSpawns == 1

IdsManual == 1

\* SpecVad: the last value of the clock the segmenter reads, in ms
CaptureMs == 1200

\* SpecTranscriber: recordings per run of the process, and kills of the process
TranscribeFiles == 1

TranscribeCrashes == 1

\* SpecPipeline: calls of stop()
PipelineStops == 2

\* SpecFrame: the clock and the send threads
FrameTime == 1

FrameSpawns == 1

\* SpecRace: send threads and operator calls
RaceSpawns == 2

RaceManual == 1

\* SpecLive: send threads
LiveSpawns == 3

\* SpecShutdown: send threads, and the last value of the segmenter's clock
ShutdownSpawns == 1

ShutdownCaptureMs == 60

(* Configuration defaults of the program *)

DefaultRetries == 5

DefaultConcurrent == 3

base_retry_delay == 1

max_retry_delay == 300

chunk_duration_ms == 30

silence_duration_ms == 1000

min_recording_duration_ms == 500

\* int(self.silence_duration_ms / self.chunk_duration_ms)
silence_chunks == silence_duration_ms \div chunk_duration_ms

-----------------------------------------------------------------------------
(* Values *)

cfg == <<max_retries, max_concurrent_sends, lim>>

NULL == -1

NoError == "null"

Min(a, b) == IF a <= b THEN a ELSE b

Max(a, b) == IF a >= b THEN a ELSE b

RECURSIVE Pow2(_)
Pow2(n) == IF n <= 0 THEN 1 ELSE 2 * Pow2(n - 1)

\* the delay without min(..., self.max_retry_delay)
RetryDelay_uncapped(attempts) == base_retry_delay * Pow2(attempts)

\* queue.py:239  delay = min(base * 2 ** (attempts - 1), max), in half seconds:
\* 2 * min(base * 2^(a-1), max) = min(base * 2^a, 2 * max) for every a >= 0.
RetryDelay(attempts) ==
    Min(base_retry_delay * Pow2(attempts), 2 * max_retry_delay)

Ids == DOMAIN queue

\* ids in created_at order (ORDER BY created_at ASC)
RECURSIVE OrderByCreated(_)
OrderByCreated(S) ==
    IF S = {} THEN <<>>
    ELSE LET m == CHOOSE x \in S : \A y \in S : queue[x].created_at <= queue[y].created_at
         IN  <<m>> \o OrderByCreated(S \ {m})

-----------------------------------------------------------------------------
(* TranscriptQueue *)

\* a row inserted with attempts = 1
NewRow_attempted(seq) ==
    [status |-> "pending", attempts |-> 1,
     last_error |-> NoError, next_retry |-> NULL, created_at |-> seq,
     sent_at |-> NULL, response |-> NULL]

NewRow(seq) ==
    [status |-> "pending", attempts |-> 0,
     last_error |-> NoError, next_retry |-> NULL, created_at |-> seq,
     sent_at |-> NULL, response |-> NULL]

\* INSERT INTO transcript_queue of a row with primary key id, as the seq-th
\* insertion
insert(q, id, seq) == [x \in DOMAIN q \cup {id} |-> IF x = id THEN NewRow(seq) ELSE q[x]]

\* add_transcript when _generate_id gives an id that was never used
add_transcript(q, id) == insert(q, id, id)

\* what _generate_id may return: uuid4()[:8] is 32 random bits, so besides an
\* id never used before (next_id) it may be one that was used already; the
\* specifications without lim.ids leave that case out
GeneratedIds == IF "ids" \in DOMAIN lim THEN 1..next_id ELSE {next_id}

\* get_next_pending with ORDER BY created_at DESC
get_next_pending_newest ==
    LET P == {x \in Ids : queue[x].status = "pending"}
    IN  IF P = {} THEN <<>> ELSE <<OrderByCreated(P)[Cardinality(P)]>>

get_next_pending ==
    LET P == {x \in Ids : queue[x].status = "pending"}
    IN  IF P = {} THEN <<>> ELSE <<Head(OrderByCreated(P))>>

get_retryable_items ==
    OrderByCreated({x \in Ids :
        /\ queue[x].status = "pending"
        /\ queue[x].attempts > 0
        /\ queue[x].attempts < max_retries
        /\ (queue[x].next_retry = NULL \/ queue[x].next_retry <= now)})

get_item(id) == IF id \in Ids THEN <<id>> ELSE <<>>

\* rowcount > 0
RowFound(q, id) == id \in DOMAIN q

\* mark_as_sending that counts the attempt and leaves the status
mark_as_sending_counts_only(q, id, t) ==
    IF RowFound(q, id)
    THEN [q EXCEPT ![id].attempts = @ + 1]
    ELSE q

mark_as_sending(q, id, t) ==
    IF RowFound(q, id)
    THEN [q EXCEPT ![id].status = "sending",
                   ![id].attempts = @ + 1]
    ELSE q

\* mark_as_sent that drops the response it is given
mark_as_sent_no_response(q, id, resp, t) ==
    IF RowFound(q, id)
    THEN [q EXCEPT ![id].status = "sent",
                   ![id].sent_at = t]
    ELSE q

mark_as_sent(q, id, resp, t) ==
    IF RowFound(q, id)
    THEN [q EXCEPT ![id].status = "sent",
                   ![id].sent_at = t,
                   ![id].response = resp]
    ELSE q

\* mark_as_failed that counts the failure as one more attempt
mark_as_failed_counts(q, id, err, t) ==
    IF ~RowFound(q, id) THEN q
    ELSE IF q[id].attempts >= max_retries
         THEN [q EXCEPT ![id].status = "failed_permanent",
                        ![id].attempts = @ + 1,
                        ![id].last_error = err]
         ELSE [q EXCEPT ![id].status = "pending",
                        ![id].attempts = @ + 1,
                        ![id].last_error = err,
                        ![id].next_retry = t + RetryDelay(q[id].attempts)]

mark_as_failed(q, id, err, t) ==
    IF ~RowFound(q, id) THEN q
    ELSE IF q[id].attempts >= max_retries
         THEN [q EXCEPT ![id].status = "failed_permanent",
                        ![id].last_error = err]
         ELSE [q EXCEPT ![id].status = "pending",
                        ![id].last_error = err,
                        ![id].next_retry = t + RetryDelay(q[id].attempts)]

\* reset_attempts that leaves next_retry as it is
reset_attempts_keeps_retry(q, id) ==
    IF RowFound(q, id)
    THEN [q EXCEPT ![id].attempts = 0,
                   ![id].status = "pending",
                   ![id].last_error = NoError]
    ELSE q

reset_attempts(q, id) ==
    IF RowFound(q, id)
    THEN [q EXCEPT ![id].attempts = 0,
                   ![id].status = "pending",
                   ![id].last_error = NoError,
                   ![id].next_retry = NULL]
    ELSE q

CountStatus(s) == Cardinality({x \in Ids : queue[x].status = s})

get_stats ==
    [pending |-> CountStatus("pending"), sending |-> CountStatus("sending"),
     sent |-> CountStatus("sent"), failed_permanent |-> CountStatus("failed_permanent"),
     total |-> Cardinality(Ids)]

\* the DELETE without status = 'sent'
CleanupVictims_any_status(days) ==
    {x \in Ids : queue[x].sent_at # NULL /\ queue[x].sent_at < now - days}

\* DELETE ... WHERE status = 'sent' AND sent_at < cutoff, cutoff = now - days_old
CleanupVictims(days) ==
    {x \in Ids : queue[x].status = "sent" /\ queue[x].sent_at < now - days}

cleanup_old_items(q, days) == [x \in DOMAIN q \ CleanupVictims(days) |-> q[x]]

\* removed_count = cursor.rowcount
removed_count(days) == Cardinality(CleanupVictims(days))

-----------------------------------------------------------------------------
(* The remote API, as the requests session sees it *)

Http(c) == [kind |-> "http", code |-> c]

ConnectionError == [kind |-> "connection_error", code |-> 0]

Timeout == [kind |-> "timeout", code |-> 0]

\* any other exception of the try block (e.g. response.json() on a bad body)
Unexpected == [kind |-> "unexpected_error", code |-> 0]

NoResp == [kind |-> "none", code |-> 0]

Codes == {200, 400, 429, 503}

Outcomes == {Http(c) : c \in Codes} \cup {ConnectionError, Timeout, Unexpected}

ServerAnswers ==
    IF script # <<>> THEN {Head(script)}
    ELSE IF srv_ok THEN {Http(200)} ELSE lim.outcomes

\* response.raise_for_status(): HTTPError for 4xx and 5xx
RaisesHTTPError(c) == 400 <= c /\ c < 600

\* bool(response) is response.ok: False for every response that raises HTTPError
ResponseTruthy(c) == ~RaisesHTTPError(c)

-----------------------------------------------------------------------------
(* TranscriptSender: send threads *)

Thread(id) == [item |-> id, pc |-> "inc_rd", tmp |-> 0, resp |-> NoResp, marked |-> FALSE]

RECURSIVE Spawn(_, _)
Spawn(b, s) == IF s = <<>> THEN b ELSE Spawn(b (+) SetToBag({Thread(Head(s))}), Tail(s))

NThreads == BagCardinality(threads)

Running == BagToSet(threads)

Replace(t, t2) == (threads (-) SetToBag({t})) (+) SetToBag({t2})

\* threading.Thread(target=self._send_transcript_thread, args=(item,)).start()
\* for each id of s; the model stops at lim.spawns threads in all
StartThreads(s) ==
    /\ spawned + Len(s) <= lim.spawns
    /\ spawned' = spawned + Len(s)
    /\ threads' = Spawn(threads, s)

RECURSIVE RepeatFailed(_, _, _, _, _)
RepeatFailed(n, q, id, err, t) ==
    IF n = 0 THEN q ELSE RepeatFailed(n - 1, mark_as_failed(q, id, err, t), id, err, t)

\* the except HTTPError branch with an UPDATE that has no WHERE id = ?
OnHTTPError_every_row(q, id, c, t) ==
    [x \in DOMAIN q |-> mark_as_failed(q, x, "http_error", t)[x]]

\* the except HTTPError branch of _send_transcript
OnHTTPError(q, id, c, t) ==
    IF ResponseTruthy(c) /\ 400 <= c /\ c < 500
    THEN RepeatFailed(max_retries, q, id, "http_error", t)
    ELSE mark_as_failed(q, id, "http_error", t)

\* _send_transcript without response.raise_for_status()
OnOutcome_no_raise(q, id, r, t) ==
    IF r.kind = "http" THEN mark_as_sent(q, id, r.code, t)
    ELSE mark_as_failed(q, id, r.kind, t)

\* what _send_transcript does with the outcome of session.post
OnOutcome(q, id, r, t) ==
    IF r.kind = "http"
    THEN IF RaisesHTTPError(r.code) THEN OnHTTPError(q, id, r.code, t)
         ELSE mark_as_sent(q, id, r.code, t)
    ELSE mark_as_failed(q, id, r.kind, t)

\* except ConnectionError without self.is_online = False
OnlineAfter_kept(r, online) == online

\* except ConnectionError: self.is_online = False
OnlineAfter(r, online) == IF r.kind = "connection_error" THEN FALSE ELSE online

\* _send_transcript that ignores what mark_as_sending returned
AfterMark_ignored(found) == "post"

\* where _send_transcript goes after mark_as_sending returned found
AfterMark(found) == IF found THEN "post" ELSE "dec_rd"

\* self.active_sends += 1 : load
IncRead(t) ==
    /\ t.pc = "inc_rd"
    /\ threads' = Replace(t, [t EXCEPT !.pc = "inc_wr", !.tmp = active_sends])
    /\ UNCHANGED <<queue, next_id, now, is_online, active_sends, dpc, d_retry,
                   script, srv_ok, manual, spawned, cfg, stop_flag, pipeline>>

\* self.active_sends += 1 : store
IncWrite(t) ==
    /\ t.pc = "inc_wr"
    /\ active_sends' = t.tmp + 1
    /\ threads' = Replace(t, [t EXCEPT !.pc = "mark", !.tmp = 0])
    /\ UNCHANGED <<queue, next_id, now, is_online, dpc, d_retry, script, srv_ok,
                   manual, spawned, cfg, stop_flag, pipeline>>

\* if not self.queue.mark_as_sending(item_id): return
MarkSending(t) ==
    /\ t.pc = "mark"
    /\ queue' = mark_as_sending(queue, t.item, now)
    /\ threads' = Replace(t, [t EXCEPT !.pc = AfterMark(RowFound(queue, t.item)),
                                      !.marked = RowFound(queue, t.item)])
    /\ UNCHANGED <<next_id, now, is_online, active_sends, dpc, d_retry,
                   script, srv_ok, manual, spawned, cfg, stop_flag, pipeline>>

\* self.session.post(...): the request is made and its outcome is decided
Post(t) ==
    /\ t.pc = "post"
    /\ \E r \in ServerAnswers :
          threads' = Replace(t, [t EXCEPT !.pc = "handle", !.resp = r])
    /\ script' = IF script # <<>> THEN Tail(script) ELSE script
    /\ UNCHANGED <<queue, next_id, now, is_online, active_sends, dpc, d_retry,
                   srv_ok, manual, spawned, cfg, stop_flag, pipeline>>

\* raise_for_status / mark_as_sent / the except branches
Handle(t) ==
    /\ t.pc = "handle"
    /\ queue' = OnOutcome(queue, t.item, t.resp, now)
    /\ is_online' = OnlineAfter(t.resp, is_online)
    /\ threads' = Replace(t, [t EXCEPT !.pc = "dec_rd", !.resp = NoResp])
    /\ UNCHANGED <<next_id, now, active_sends, dpc, d_retry, script, srv_ok,
                   manual, spawned, cfg, stop_flag, pipeline>>

\* finally: self.active_sends -= 1 : load
DecRead(t) ==
    /\ t.pc = "dec_rd"
    /\ threads' = Replace(t, [t EXCEPT !.pc = "dec_wr", !.tmp = active_sends])
    /\ UNCHANGED <<queue, next_id, now, is_online, active_sends, dpc, d_retry,
                   script, srv_ok, manual, spawned, cfg, stop_flag, pipeline>>

\* finally: self.active_sends -= 1 : store; the thread ends
DecWrite(t) ==
    /\ t.pc = "dec_wr"
    /\ active_sends' = t.tmp - 1
    /\ threads' = threads (-) SetToBag({t})
    /\ UNCHANGED <<queue, next_id, now, is_online, dpc, d_retry, script, srv_ok,
                   manual, spawned, cfg, stop_flag, pipeline>>

SendThread ==
    \E t \in Running :
        \/ IncRead(t)
        \/ IncWrite(t)
        \/ MarkSending(t)
        \/ Post(t)
        \/ Handle(t)
        \/ DecRead(t)
        \/ DecWrite(t)

-----------------------------------------------------------------------------
(* TranscriptSender: the connectivity loop and the sender loop *)

\* while not self.stop_flag.is_set(): self.is_online = self.check_connectivity()
ConnectivityLoop ==
    /\ ~stop_flag
    /\ \E b \in BOOLEAN : is_online' = b
    /\ UNCHANGED <<queue, next_id, now, active_sends, threads, dpc, d_retry,
                   script, srv_ok, manual, spawned, cfg, stop_flag, pipeline>>

\* retry_items[:k] as Python slices it (a negative k drops from the end)
PySlice(s, k) ==
    IF k >= 0 THEN SubSeq(s, 1, Min(k, Len(s)))
    ELSE SubSeq(s, 1, Max(Len(s) + k, 0))

\* a connectivity probe that finds the network and the API reachable
ProbeOnline == ConnectivityLoop /\ is_online'

\* _sender_loop that does not look at is_online
SenderLoopCheck_blind ==
    /\ dpc = "sleep"
    /\ ~stop_flag
    /\ dpc' = "cap"
    /\ UNCHANGED <<queue, next_id, now, is_online, active_sends, threads, d_retry,
                   script, srv_ok, manual, spawned, cfg, stop_flag, pipeline>>

\* _sender_loop: while not self.stop_flag.is_set(): if self.is_online and
\* self.api_url
SenderLoopCheck ==
    /\ dpc = "sleep"
    /\ ~stop_flag
    /\ is_online
    /\ dpc' = "cap"
    /\ UNCHANGED <<queue, next_id, now, is_online, active_sends, threads, d_retry,
                   script, srv_ok, manual, spawned, cfg, stop_flag, pipeline>>

\* _process_pending_items: if self.active_sends >= self.max_concurrent_sends: return
ProcessCap ==
    /\ dpc = "cap"
    /\ dpc' = IF active_sends >= max_concurrent_sends THEN "sleep" ELSE "first"
    /\ UNCHANGED <<queue, next_id, now, is_online, active_sends, threads, d_retry,
                   script, srv_ok, manual, spawned, cfg, stop_flag, pipeline>>

\* next_item = self.queue.get_next_pending(); start a thread for it
ProcessFirst ==
    /\ dpc = "first"
    /\ StartThreads(get_next_pending)
    /\ dpc' = "retry_q"
    /\ UNCHANGED <<queue, next_id, now, is_online, active_sends, d_retry,
                   script, srv_ok, manual, cfg, stop_flag, pipeline>>

\* retry_items = self.queue.get_retryable_items()
ProcessRetryQuery ==
    /\ dpc = "retry_q"
    /\ d_retry' = get_retryable_items
    /\ dpc' = "retry_spawn"
    /\ UNCHANGED <<queue, next_id, now, is_online, active_sends, threads,
                   script, srv_ok, manual, spawned, cfg, stop_flag, pipeline>>

\* for item in retry_items[:self.max_concurrent_sends - self.active_sends]
RetryBatch == PySlice(d_retry, max_concurrent_sends - active_sends)

ProcessRetrySpawn ==
    /\ dpc = "retry_spawn"
    /\ StartThreads(RetryBatch)
    /\ d_retry' = <<>>
    /\ dpc' = "sleep"
    /\ UNCHANGED <<queue, next_id, now, is_online, active_sends,
                   script, srv_ok, manual, cfg, stop_flag, pipeline>>

\* _sender_loop finds stop_flag set after its sleep and ends
SenderLoopExit ==
    /\ dpc = "sleep"
    /\ stop_flag
    /\ dpc' = "done"
    /\ UNCHANGED <<queue, next_id, now, is_online, active_sends, threads, d_retry,
                   script, srv_ok, manual, spawned, cfg, stop_flag, pipeline>>

SenderLoop ==
    \/ SenderLoopCheck
    \/ ProcessCap
    \/ ProcessFirst
    \/ ProcessRetryQuery
    \/ ProcessRetrySpawn

-----------------------------------------------------------------------------
(* The segmenter: vad.py.  File paths are the numbers in audio_NNNN.wav, 0  *)
(* for None; buffers are numbers of chunks.                                *)

\* VAD.__init__
VAD ==
    [is_recording |-> FALSE, is_listening |-> FALSE, stop_flag |-> FALSE,
     audio_counter |-> 0, current_audio_file |-> 0, recording_start_time |-> NULL,
     voice_buffer |-> 0, audio_buffer |-> 0]

\* VAD.start_listening: the recording thread starts at the top of its loop
start_listening(v) == [v EXCEPT !.is_listening = TRUE, !.stop_flag = FALSE]

\* deque(maxlen = silence_chunks).append
AppendVoice(n) == Min(n + 1, silence_chunks)

\* _start_recording, called when the chunk read at time t is speech
start_recording(v, t) ==
    IF v.is_recording THEN v
    ELSE [v EXCEPT !.is_recording = TRUE,
                   !.recording_start_time = t,
                   !.audio_counter = @ + 1,
                   !.current_audio_file = v.audio_counter + 1,
                   !.audio_buffer = 0]

\* _process_audio_chunk without self.voice_buffer.clear() when the recording
\* is on
process_audio_chunk_no_clear(v, is_speech, t) ==
    IF is_speech
    THEN LET w == start_recording(v, t)
             pre == IF v.is_recording THEN 0 ELSE v.voice_buffer
         IN  [w EXCEPT !.audio_buffer = @ + pre + 1,
                       !.voice_buffer = IF v.is_recording THEN @ ELSE 0]
    ELSE IF v.is_recording
         THEN [v EXCEPT !.voice_buffer = AppendVoice(@), !.audio_buffer = @ + 1]
         ELSE [v EXCEPT !.voice_buffer = AppendVoice(@)]

\* _process_audio_chunk up to the call of _stop_recording
process_audio_chunk(v, is_speech, t) ==
    IF is_speech
    THEN LET w == start_recording(v, t)
             pre == IF v.is_recording THEN 0 ELSE v.voice_buffer
         IN  [w EXCEPT !.audio_buffer = @ + pre + 1, !.voice_buffer = 0]
    ELSE IF v.is_recording
         THEN [v EXCEPT !.voice_buffer = AppendVoice(@), !.audio_buffer = @ + 1]
         ELSE [v EXCEPT !.voice_buffer = AppendVoice(@)]

\* the silence buffer is full: _process_audio_chunk calls _stop_recording
SilenceTimeout(v, is_speech) ==
    ~is_speech /\ v.is_recording /\ AppendVoice(v.voice_buffer) >= silence_chunks

\* the speech of the recording so far, measured like recording_duration from
\* the moment its first speech chunk was read, up to the speech chunk read
\* at time t
Heard(v, is_speech, t) ==
    IF ~is_speech THEN heard
    ELSE IF ~v.is_recording THEN Append(heard, 0)
    ELSE [heard EXCEPT ![v.audio_counter] = t - v.recording_start_time]

\* _on_audio_ready, the callback main.py installs: asyncio.create_task gives
\* a task for the file or raises, and the exception is logged and dropped
OnAudioReady(file) ==
    \E scheduled \in BOOLEAN :
        tasks' = IF scheduled THEN tasks \cup {file} ELSE tasks

\* the last value of the clock the segmenter reads in this run
Capture == IF "capture" \in DOMAIN lim THEN lim.capture ELSE CaptureMs

\* while not stop_flag.is_set()
LoopTop ==
    /\ vpc.loop = "top"
    /\ vpc' = [vpc EXCEPT !.loop = IF vad.stop_flag THEN "done" ELSE "read"]
    /\ UNCHANGED <<beyond_vad, vad, ms, wavs, sink, heard, tasks>>

\* stream.read returns the next chunk, chunk_duration_ms later, and
\* _process_audio_chunk handles it
ReadChunk ==
    /\ vpc.loop = "read"
    /\ ms + chunk_duration_ms <= Capture
    /\ ms' = ms + chunk_duration_ms
    /\ \E is_speech \in BOOLEAN :
          /\ vad' = process_audio_chunk(vad, is_speech, ms')
          /\ heard' = Heard(vad, is_speech, ms')
          /\ vpc' = [vpc EXCEPT !.loop = IF SilenceTimeout(vad, is_speech)
                                         THEN "check" ELSE "top"]
    /\ UNCHANGED <<beyond_vad, wavs, sink, tasks>>

\* stream.read raises: the error is logged, the loop is left with break and
\* the finally clause runs _cleanup_audio, which closes the stream; no field
\* of the recording is touched
ReadError ==
    /\ vpc.loop = "read"
    /\ vpc' = [vpc EXCEPT !.loop = "done"]
    /\ UNCHANGED <<beyond_vad, vad, ms, wavs, sink, heard, tasks>>

\* where a thread continues when _stop_recording returns
Return(th) == [vpc EXCEPT ![th] = IF th = "loop" THEN "top" ELSE "join"]

\* where it continues when _stop_recording raises: _recording_loop logs the
\* error and ends, VAD.stop() passes it to its caller
Raise(th) == [vpc EXCEPT ![th] = IF th = "loop" THEN "done" ELSE "raised"]

\* _stop_recording: if not self.is_recording: return
StopCheck(th) ==
    /\ vpc[th] = "check"
    /\ vpc' = IF vad.is_recording THEN [vpc EXCEPT ![th] = "duration"] ELSE Return(th)
    /\ UNCHANGED <<beyond_vad, vad, ms, wavs, sink, heard, tasks>>

\* recording_duration, the time since _start_recording
recording_duration == ms - vad.recording_start_time

\* _stop_recording: the test of the minimum duration
StopDuration(th) ==
    /\ vpc[th] = "duration"
    /\ vpc' = [vpc EXCEPT ![th] = IF recording_duration < min_recording_duration_ms
                                   THEN "discard" ELSE "save"]
    /\ UNCHANGED <<beyond_vad, vad, ms, wavs, sink, heard, tasks>>

\* the Reset at the end of _stop_recording and of _discard_recording
reset_recording(v) ==
    [v EXCEPT !.is_recording = FALSE, !.current_audio_file = 0, !.audio_buffer = 0]

\* _discard_recording, and the return after it
StopDiscard(th) ==
    /\ vpc[th] = "discard"
    /\ wavs' = wavs \ {vad.current_audio_file}
    /\ vad' = reset_recording(vad)
    /\ vpc' = Return(th)
    /\ UNCHANGED <<beyond_vad, ms, sink, heard, tasks>>

\* _save_audio_file: nothing is written without a file name or without audio
StopSave(th) ==
    /\ vpc[th] = "save"
    /\ wavs' = IF vad.current_audio_file = 0 \/ vad.audio_buffer = 0
               THEN wavs ELSE wavs \cup {vad.current_audio_file}
    /\ vpc' = [vpc EXCEPT ![th] = "notify"]
    /\ UNCHANGED <<beyond_vad, vad, ms, sink, heard, tasks>>

\* os.path.basename(self.current_audio_file) in the log line raises
\* TypeError on None; then the test before the callback
StopNotify(th) ==
    /\ vpc[th] = "notify"
    /\ vpc' = IF vad.current_audio_file = 0 THEN Raise(th) ELSE [vpc EXCEPT ![th] = "call"]
    /\ UNCHANGED <<beyond_vad, vad, ms, wavs, sink, heard, tasks>>

\* self.on_audio_ready(self.current_audio_file)
StopCall(th) ==
    /\ vpc[th] = "call"
    /\ sink' = Append(sink, vad.current_audio_file)
    /\ OnAudioReady(vad.current_audio_file)
    /\ vpc' = [vpc EXCEPT ![th] = "reset"]
    /\ UNCHANGED <<beyond_vad, vad, ms, wavs, heard>>

\* the Reset block of _stop_recording
StopReset(th) ==
    /\ vpc[th] = "reset"
    /\ vad' = reset_recording(vad)
    /\ vpc' = Return(th)
    /\ UNCHANGED <<beyond_vad, ms, wavs, sink, heard, tasks>>

\* _stop_recording, run by the thread th
stop_recording(th) ==
    \/ StopCheck(th)
    \/ StopDuration(th)
    \/ StopDiscard(th)
    \/ StopSave(th)
    \/ StopNotify(th)
    \/ StopCall(th)
    \/ StopReset(th)

\* the recording thread
recording_loop ==
    \/ LoopTop
    \/ ReadChunk
    \/ stop_recording("loop")

\* VAD.stop() is called: stop_flag.set()
StopFlag ==
    /\ vpc.stop = "none"
    /\ vad.is_listening
    /\ vad' = [vad EXCEPT !.stop_flag = TRUE]
    /\ vpc' = [vpc EXCEPT !.stop = "test"]
    /\ UNCHANGED <<beyond_vad, ms, wavs, sink, heard, tasks>>

\* VAD.stop(): if self.is_recording: self._stop_recording()
StopTest ==
    /\ vpc.stop = "test"
    /\ vpc' = [vpc EXCEPT !.stop = IF vad.is_recording THEN "check" ELSE "join"]
    /\ UNCHANGED <<beyond_vad, vad, ms, wavs, sink, heard, tasks>>

\* VAD.stop(): recording_thread.join(timeout=2) returns when the thread has
\* ended or after two seconds; is_listening = False
StopJoin ==
    /\ vpc.stop = "join"
    /\ vad' = [vad EXCEPT !.is_listening = FALSE]
    /\ vpc' = [vpc EXCEPT !.stop = "stopped"]
    /\ UNCHANGED <<beyond_vad, ms, wavs, sink, heard, tasks>>

\* VAD.stop(), called from a thread that is not the recording thread
vad_stop ==
    \/ StopFlag
    \/ StopTest
    \/ stop_recording("stop")
    \/ StopJoin

-----------------------------------------------------------------------------
(* The transcriber: transcribe.py, and _process_audio of main.py *)

Primary == "pywhispercpp"

\* the names _init_whisper knows
Backends == {"pywhispercpp", "openai", "faster-whisper"}

\* values of the whisper_backend setting
BackendNames == Backends \cup {"other"}

\* no Transcriber constructed yet
NoTranscriber ==
    [state |-> "none", whisper_backend |-> "", whisper_model |-> FALSE,
     transcript_counter |-> 0, tried |-> <<>>, pc |-> "idle", file |-> 0, text |-> ""]

NoResult == [file |-> 0, text |-> "", out |-> "idle"]

\* _load_counter
load_counter == IF counter_file = NULL THEN 0 ELSE counter_file

\* _init_pywhispercpp, _init_openai_whisper, _init_faster_whisper: TRUE when
\* the model loads, FALSE when the call raises
Loads(b) == b \in setup.loadable

\* _init_whisper: the backends tried in order, the one kept, whether a model
\* is loaded; "fatal" when the exception leaves __init__
init_whisper ==
    LET c == setup.whisper_backend
    IN  IF c \in Backends /\ Loads(c)
        THEN [state |-> "ready", whisper_backend |-> c, whisper_model |-> TRUE,
              tried |-> <<c>>]
        ELSE IF c # Primary
        THEN [state |-> IF Loads(Primary) THEN "ready" ELSE "fatal",
              whisper_backend |-> Primary, whisper_model |-> Loads(Primary),
              tried |-> IF c \in Backends THEN <<c, Primary>> ELSE <<Primary>>]
        ELSE [state |-> "ready", whisper_backend |-> c, whisper_model |-> FALSE,
              tried |-> <<c>>]

\* the object Transcriber.__init__ leaves
constructed ==
    [NoTranscriber EXCEPT !.state = init_whisper.state,
                          !.whisper_backend = init_whisper.whisper_backend,
                          !.whisper_model = init_whisper.whisper_model,
                          !.tried = init_whisper.tried,
                          !.transcript_counter = load_counter]

\* Transcriber.__init__
Transcriber ==
    /\ tr.state = "none"
    /\ tr' = constructed
    /\ UNCHANGED <<delivery, vad, ms, vpc, wavs, sink, heard, tasks,
                   counter_file, written, result, setup, orch>>

\* what the backend's transcribe call gives: a text, or an exception
Texts == {"", " ", "hi", " hi "}

BackendError == "error"

\* str.strip
strip(text) == IF text = " " THEN "" ELSE IF text = " hi " THEN "hi" ELSE text

\* the test that forgets strip()
NoText_unstripped(text) == text = ""

\* not text or not text.strip()
NoText(text) == text = "" \/ strip(text) = ""

\* _cleanup_audio_file
cleanup_audio_file(w, file) == w \ {file}

\* _process_audio passes the record to add_transcript
AddRecord ==
    /\ queue' = insert(queue, next_id, next_id)
    /\ next_id' = next_id + 1
    /\ UNCHANGED <<now, is_online, active_sends, threads, dpc, d_retry,
                   script, srv_ok, manual, spawned, cfg, stop_flag>>

\* the event loop runs the _process_audio task of a file: transcribe_audio
\* up to the write of NNNN.txt in _save_transcript, or to its end when it
\* ends before that.  The loop and stop() share the main thread: nothing of a
\* task runs once stop() has been entered
TranscribeAudio ==
    /\ orch.pc = "run"
    /\ tr.state = "ready"
    /\ tr.pc = "idle"
    /\ \E file \in tasks :
          /\ tasks' = tasks \ {file}
          /\ \E out \in Texts \cup {BackendError} : \E write_ok \in BOOLEAN :
                LET text == IF file \in wavs /\ tr.whisper_model THEN out ELSE BackendError
                IN  IF text = BackendError
                    THEN /\ wavs' = cleanup_audio_file(wavs, file)
                         /\ result' = [file |-> file, text |-> BackendError, out |-> "raise"]
                         /\ UNCHANGED <<tr, written>>
                    ELSE IF NoText(text)
                    THEN /\ wavs' = cleanup_audio_file(wavs, file)
                         /\ result' = [file |-> file, text |-> text, out |-> "None"]
                         /\ UNCHANGED <<tr, written>>
                    ELSE IF write_ok
                    THEN /\ tr' = [tr EXCEPT !.transcript_counter = @ + 1,
                                             !.pc = "saved", !.file = file,
                                             !.text = strip(text)]
                         /\ written' = Append(written, tr.transcript_counter + 1)
                         /\ UNCHANGED <<wavs, result>>
                    ELSE /\ tr' = [tr EXCEPT !.transcript_counter = @ + 1]
                         /\ wavs' = cleanup_audio_file(wavs, file)
                         /\ result' = [file |-> file, text |-> text, out |-> "raise"]
                         /\ UNCHANGED written
    /\ UNCHANGED <<delivery, vad, ms, vpc, sink, heard, counter_file, setup, orch>>

\* _save_counter: write_text, an exception is logged and dropped
SaveCounter ==
    /\ orch.pc = "run"
    /\ tr.pc = "saved"
    /\ \E ok \in BOOLEAN :
          counter_file' = IF ok THEN tr.transcript_counter ELSE counter_file
    /\ tr' = [tr EXCEPT !.pc = "counted"]
    /\ UNCHANGED <<delivery, vad, ms, vpc, wavs, sink, heard, tasks,
                   written, result, setup, orch>>

\* the rest of transcribe_audio after _save_transcript, and of _process_audio
\* after it
ReturnRecord ==
    /\ orch.pc = "run"
    /\ tr.pc = "counted"
    /\ wavs' = cleanup_audio_file(wavs, tr.file)
    /\ result' = [file |-> tr.file, text |-> tr.text, out |-> "record"]
    /\ tr' = [tr EXCEPT !.pc = "idle", !.file = 0, !.text = ""]
    /\ AddRecord
    /\ UNCHANGED <<vad, ms, vpc, sink, heard, tasks, counter_file, written, setup, orch>>

process_audio ==
    \/ TranscribeAudio
    \/ SaveCounter
    \/ ReturnRecord

\* a recording from _start_recording to the end of _stop_recording with no
\* other thread in between: the WAV is saved and its task scheduled
Recording ==
    /\ tr.state = "ready"
    /\ vad.audio_counter < TranscribeFiles
    /\ LET file == vad.audio_counter + 1
       IN  /\ vad' = [vad EXCEPT !.audio_counter = file]
           /\ wavs' = wavs \cup {file}
           /\ sink' = Append(sink, file)
           /\ tasks' = tasks \cup {file}
    /\ UNCHANGED <<delivery, ms, vpc, heard, tr, counter_file, written, result,
                   setup, orch>>

\* the process is killed and started again: the files are all that survives
Crash ==
    /\ orch.restarts < TranscribeCrashes
    /\ orch' = [orch EXCEPT !.restarts = @ + 1]
    /\ tr' = NoTranscriber
    /\ vad' = start_listening(VAD)
    /\ tasks' = {}
    /\ sink' = <<>>
    /\ result' = NoResult
    /\ UNCHANGED <<delivery, ms, vpc, heard, wavs, counter_file, written, setup>>

-----------------------------------------------------------------------------
(* The orchestrator: main.py *)

\* WhisperTranscriber, once start() has set is_running
WhisperTranscriber ==
    [is_running |-> TRUE, pc |-> "run", stop_calls |-> 0, stopped |-> <<>>,
     restarts |-> 0]

\* what the orchestrator's own steps leave alone
beyond_stop == <<dispatch, ms, wavs, sink, heard, tasks,
                 tr, counter_file, written, result, setup>>

\* stop() is called while is_running, from _signal_handler or from the
\* finally of start(): is_running = False, then self.vad.stop(), which
\* sets its stop_flag
Stop ==
    /\ orch.pc = "run"
    /\ orch.is_running
    /\ orch' = [orch EXCEPT !.is_running = FALSE, !.pc = "vad",
                            !.stop_calls = @ + 1, !.stopped = Append(@, "vad")]
    /\ vad.is_listening
    /\ vad' = [vad EXCEPT !.stop_flag = TRUE]
    /\ vpc' = [vpc EXCEPT !.stop = "test"]
    /\ UNCHANGED <<beyond_stop, stop_flag>>

\* self.vad.stop() has returned: self.sender.stop(), which sets the sender's
\* stop_flag and waits at most two seconds for each loop, and stop() returns
StopSender ==
    /\ orch.pc = "vad"
    /\ vpc.stop = "stopped"
    /\ orch' = [orch EXCEPT !.pc = "returned", !.stopped = Append(@, "sender")]
    /\ stop_flag' = TRUE
    /\ UNCHANGED <<beyond_stop, vad, vpc>>

\* an exception of self.vad.stop() leaves stop()
StopRaises ==
    /\ orch.pc = "vad"
    /\ vpc.stop = "raised"
    /\ orch' = [orch EXCEPT !.pc = "raised"]
    /\ UNCHANGED <<beyond_stop, stop_flag, vad, vpc>>

\* stop() is called again after it has ended: if not self.is_running: return
StopAgain ==
    /\ orch.pc \in {"returned", "raised"}
    /\ orch.stop_calls < PipelineStops
    /\ orch' = [orch EXCEPT !.stop_calls = @ + 1]
    /\ UNCHANGED <<beyond_stop, stop_flag, vad, vpc>>

\* a second signal while stop() runs: the handler's own stop() returns at
\* once and its sys.exit(0) unwinds the stop() it has interrupted
SignalInStop ==
    /\ orch.pc = "vad"
    /\ orch.stop_calls < PipelineStops
    /\ orch' = [orch EXCEPT !.stop_calls = @ + 1, !.pc = "raised"]
    /\ vpc' = [vpc EXCEPT !.stop = "raised"]
    /\ UNCHANGED <<beyond_stop, stop_flag, vad>>

\* WhisperTranscriber.stop with the calls it makes
stop ==
    \/ Stop
    \/ StopTest
    \/ stop_recording("stop")
    \/ StopJoin
    \/ StopSender
    \/ StopRaises
    \/ StopAgain
    \/ SignalInStop

-----------------------------------------------------------------------------
(* Calls made from outside the loops *)

\* the transcription pipeline enqueues a record
AddTranscript ==
    /\ next_id <= lim.items
    /\ \E id \in GeneratedIds :
          \* an id that is in the table: IntegrityError, add_transcript raises
          /\ ~RowFound(queue, id)
          /\ queue' = insert(queue, id, next_id)
    /\ next_id' = next_id + 1
    /\ UNCHANGED <<now, is_online, active_sends, threads, dpc, d_retry,
                   script, srv_ok, manual, spawned, cfg, stop_flag, pipeline>>

Operator ==
    /\ manual < lim.manual
    /\ manual' = manual + 1

\* what force_send returns
force_send_returns(id) == get_item(id) # <<>> /\ is_online

\* what retry_item returns
retry_item_returns(id) == RowFound(queue, id)

\* force_send that does not look at is_online
force_send_offline(id) ==
    /\ Operator
    /\ IF get_item(id) # <<>>
       THEN StartThreads(get_item(id))
       ELSE UNCHANGED <<threads, spawned>>
    /\ UNCHANGED <<queue, next_id, now, is_online, active_sends, dpc, d_retry,
                   script, srv_ok, cfg, stop_flag, pipeline>>

force_send(id) ==
    /\ Operator
    /\ IF force_send_returns(id)
       THEN StartThreads(get_item(id))
       ELSE UNCHANGED <<threads, spawned>>
    /\ UNCHANGED <<queue, next_id, now, is_online, active_sends, dpc, d_retry,
                   script, srv_ok, cfg, stop_flag, pipeline>>

retry_item(id) ==
    /\ Operator
    /\ queue' = reset_attempts(queue, id)
    /\ IF retry_item_returns(id) /\ is_online
       THEN StartThreads(get_item(id))
       ELSE UNCHANGED <<threads, spawned>>
    /\ UNCHANGED <<next_id, now, is_online, active_sends, dpc, d_retry, script,
                   srv_ok, cfg, stop_flag, pipeline>>

Cleanup(days) ==
    /\ Operator
    /\ queue' = cleanup_old_items(queue, days)
    /\ UNCHANGED <<next_id, now, is_online, active_sends, threads, dpc, d_retry,
                   script, srv_ok, spawned, cfg, stop_flag, pipeline>>

\* the process dies and is started again: the table is all that survives
Restart ==
    /\ Operator
    /\ threads' = EmptyBag
    /\ active_sends' = 0
    /\ is_online' = FALSE
    /\ dpc' = "sleep"
    /\ d_retry' = <<>>
    /\ stop_flag' = FALSE
    /\ UNCHANGED <<queue, next_id, now, script, srv_ok, spawned, cfg, pipeline>>

Tick ==
    /\ now < lim.time
    /\ now' = now + 1
    /\ UNCHANGED <<queue, next_id, is_online, active_sends, threads, dpc, d_retry,
                   script, srv_ok, manual, spawned, max_retries, max_concurrent_sends, cfg, stop_flag, pipeline>>

-----------------------------------------------------------------------------
(* Specifications *)

\* a store that no record was ever added to
EmptyStore ==
    /\ queue = <<>>
    /\ next_id = 1

\* the segmenter, the transcriber and the orchestrator not started
Idle ==
    /\ vad = VAD
    /\ ms = 0
    /\ vpc = [loop |-> "none", stop |-> "none"]
    /\ wavs = {}
    /\ sink = <<>>
    /\ heard = <<>>
    /\ tasks = {}
    /\ tr = NoTranscriber
    /\ counter_file = NULL
    /\ written = <<>>
    /\ result = NoResult
    /\ setup = [whisper_backend |-> Primary, loadable |-> {Primary}]
    /\ orch = WhisperTranscriber

\* the state after TranscriptQueue() and TranscriptSender()
Started ==
    /\ now = 0
    /\ is_online = FALSE
    /\ active_sends = 0
    /\ threads = EmptyBag
    /\ dpc = "sleep"
    /\ d_retry = <<>>
    /\ manual = 0
    /\ spawned = 0
    /\ stop_flag = FALSE

Init ==
    /\ EmptyStore
    /\ Started
    /\ Idle
    /\ script = <<>>
    /\ srv_ok = FALSE
    /\ max_retries = MainRetries
    /\ max_concurrent_sends = MainConcurrent
    /\ lim = [items |-> MaxItems, time |-> MaxTime, spawns |-> MaxSpawns,
              manual |-> MaxManual,
              outcomes |-> {Http(200), Http(400), Http(503), ConnectionError}]

Next ==
    \/ AddTranscript
    \/ SendThread
    \/ ConnectivityLoop
    \/ SenderLoop
    \/ \E id \in 1..MaxItems : force_send(id)
    \/ \E id \in 1..MaxItems : retry_item(id)
    \/ \E d \in {0, 1} : Cleanup(d)
    \/ Restart
    \/ Tick

Spec == Init /\ [][Next]_vars

\* the two loops and the send threads alone, on one record, with room for a
\* third send thread
InitLoop ==
    /\ EmptyStore
    /\ Started
    /\ Idle
    /\ script = <<>>
    /\ srv_ok = FALSE
    /\ max_retries = MainRetries
    /\ max_concurrent_sends = MainConcurrent
    /\ lim = [items |-> LoopItems, time |-> LoopTime, spawns |-> LoopSpawns,
              manual |-> 0,
              outcomes |-> {Http(200), Http(503)}]

NextLoop ==
    \/ AddTranscript
    \/ SendThread
    \/ ConnectivityLoop
    \/ SenderLoop
    \/ Tick

SpecLoop == InitLoop /\ [][NextLoop]_vars

\* section 8, scenario 2: one record, a server that answers 503, 503 and then 200
InitTransient ==
    /\ EmptyStore
    /\ Started
    /\ Idle
    /\ script = <<Http(503), Http(503), Http(200)>>
    /\ srv_ok = TRUE
    /\ max_retries = DefaultRetries
    /\ max_concurrent_sends = DefaultConcurrent
    /\ lim = [items |-> ScenarioItems, time |-> ScenarioTime,
              spawns |-> ScenarioSpawns, manual |-> 0, outcomes |-> {Http(200)}]

SpecTransient == InitTransient /\ [][NextLoop]_vars

\* section 8, scenario 1: a server that answers 200 to every POST
InitHappy ==
    /\ EmptyStore
    /\ Started
    /\ Idle
    /\ script = <<>>
    /\ srv_ok = TRUE
    /\ max_retries = DefaultRetries
    /\ max_concurrent_sends = DefaultConcurrent
    /\ lim = [items |-> HappyItems, time |-> HappyTime,
              spawns |-> HappySpawns, manual |-> 0, outcomes |-> {Http(200)}]

SpecHappy == InitHappy /\ [][NextLoop]_vars

\* the store an earlier run leaves behind after delivering its one record
DeliveredStore ==
    mark_as_sent(mark_as_sending(add_transcript(<<>>, 1), 1, 0), 1, 200, 0)

\* the loops and the send threads on that store, with force_send and cleanup
\* called meanwhile
InitDispatch ==
    /\ queue = DeliveredStore
    /\ next_id = 2
    /\ Started
    /\ Idle
    /\ script = <<>>
    /\ srv_ok = FALSE
    /\ max_retries = MainRetries
    /\ max_concurrent_sends = MainConcurrent
    /\ lim = [items |-> 1, time |-> DispatchTime,
              spawns |-> DispatchSpawns, manual |-> DispatchManual,
              outcomes |-> {Http(200), Http(503)}]

NextDispatch ==
    \/ SendThread
    \/ ConnectivityLoop
    \/ SenderLoop
    \/ Tick
    \/ \E id \in Ids : force_send(id)
    \/ \E d \in {0, 1} : Cleanup(d)

SpecDispatch == InitDispatch /\ [][NextDispatch]_vars

\* the store after n records were added and none was sent
RECURSIVE Backlog(_)
Backlog(n) == IF n = 0 THEN <<>> ELSE add_transcript(Backlog(n - 1), n)

\* the loops and the send threads alone
NextSend ==
    \/ SendThread
    \/ ConnectivityLoop
    \/ SenderLoop
    \/ Tick

\* records added before the sender came online, against a server that answers
\* 200 or 503
InitFifo ==
    /\ queue = Backlog(FifoItems)
    /\ next_id = FifoItems + 1
    /\ Started
    /\ Idle
    /\ script = <<>>
    /\ srv_ok = FALSE
    /\ max_retries = MainRetries
    /\ max_concurrent_sends = MainConcurrent
    /\ lim = [items |-> FifoItems, time |-> FifoTime, spawns |-> FifoSpawns,
              manual |-> 0, outcomes |-> {Http(200), Http(503)}]

SpecFifo == InitFifo /\ [][NextSend]_vars

\* section 8, scenario 4: the records were added while the probe reported
\* offline; from now on the probe reports online
InitBacklog ==
    /\ queue = Backlog(3)
    /\ next_id = 4
    /\ Started
    /\ Idle
    /\ script = <<>>
    /\ srv_ok = FALSE
    /\ max_retries = DefaultRetries
    /\ max_concurrent_sends = DefaultConcurrent
    /\ lim = [items |-> 3, time |-> BacklogTime,
              spawns |-> BacklogSpawns, manual |-> 0,
              outcomes |-> {Http(200), Http(503)}]

NextBacklog ==
    \/ SendThread
    \/ ProbeOnline
    \/ SenderLoop
    \/ Tick

SpecBacklog == InitBacklog /\ [][NextBacklog]_vars

\* one record in the store and a server that answers 200, 408, 429 or 503, or
\* cannot be reached
InitErrors ==
    /\ queue = Backlog(1)
    /\ next_id = 2
    /\ Started
    /\ Idle
    /\ script = <<>>
    /\ srv_ok = FALSE
    /\ max_retries = MainRetries
    /\ max_concurrent_sends = MainConcurrent
    /\ lim = [items |-> 1, time |-> ErrorsTime, spawns |-> ErrorsSpawns,
              manual |-> 0,
              outcomes |-> {Http(200), Http(408), Http(429), Http(503),
                            ConnectionError}]

SpecErrors == InitErrors /\ [][NextSend]_vars

\* the store after one record was added and n sends of it failed with an
\* HTTP error, all within the first half second
RECURSIVE FailedStore(_)
FailedStore(n) ==
    IF n = 0 THEN Backlog(1)
    ELSE LET before == FailedStore(n - 1)
             marked == mark_as_sending(before, 1, 0)
         IN  mark_as_failed(marked, 1, "http_error", 0)

\* the loops and the send threads on such a store, against a server that
\* answers 503 or does not answer in time
InitBackoff ==
    /\ max_retries = BackoffRetries
    /\ max_concurrent_sends = MainConcurrent
    /\ queue \in {FailedStore(n) : n \in 0..(BackoffRetries - 1)}
    /\ next_id = 2
    /\ Started
    /\ Idle
    /\ script = <<>>
    /\ srv_ok = FALSE
    /\ lim = [items |-> 1, time |-> BackoffTime, spawns |-> BackoffSpawns,
              manual |-> 0, outcomes |-> {Http(503), Timeout}]

SpecBackoff == InitBackoff /\ [][NextSend]_vars

\* the loops and the send threads on a record that failed before, with
\* retry_item called meanwhile
InitRetry ==
    /\ max_retries = MainRetries
    /\ max_concurrent_sends = MainConcurrent
    /\ queue \in {FailedStore(n) : n \in 0..(MainRetries - 1)}
    /\ next_id = 2
    /\ Started
    /\ Idle
    /\ script = <<>>
    /\ srv_ok = FALSE
    /\ lim = [items |-> 1, time |-> RetryTime, spawns |-> RetrySpawns,
              manual |-> RetryManual, outcomes |-> {Http(200), Http(503)}]

NextRetry ==
    \/ SendThread
    \/ ConnectivityLoop
    \/ SenderLoop
    \/ Tick
    \/ \E id \in Ids : retry_item(id)

SpecRetry == InitRetry /\ [][NextRetry]_vars

\* every operation of the queue and the sender, on a store that holds a
\* delivered row when the process starts
InitStore ==
    /\ queue = DeliveredStore
    /\ next_id = 2
    /\ Started
    /\ Idle
    /\ script = <<>>
    /\ srv_ok = FALSE
    /\ max_retries = MainRetries
    /\ max_concurrent_sends = MainConcurrent
    /\ lim = [items |-> 1, time |-> StoreTime, spawns |-> StoreSpawns,
              manual |-> StoreManual, outcomes |-> {Http(200), Http(503)}]

NextStore ==
    \/ SendThread
    \/ ConnectivityLoop
    \/ SenderLoop
    \/ \E id \in 1..next_id : force_send(id)
    \/ \E id \in 1..next_id : retry_item(id)
    \/ \E d \in {0, 1} : Cleanup(d)
    \/ Restart
    \/ Tick

SpecStore == InitStore /\ [][NextStore]_vars

\* records added, with any id _generate_id may give, to a store whose
\* delivered row cleanup may have removed
InitIds ==
    /\ queue = DeliveredStore
    /\ next_id = 2
    /\ Started
    /\ Idle
    /\ script = <<>>
    /\ srv_ok = FALSE
    /\ max_retries = MainRetries
    /\ max_concurrent_sends = MainConcurrent
    /\ lim = [items |-> IdsItems, time |-> IdsTime, spawns |-> IdsSpawns,
              manual |-> IdsManual, outcomes |-> {Http(200), Http(503)},
              ids |-> TRUE]

NextIds ==
    \/ AddTranscript
    \/ SendThread
    \/ ConnectivityLoop
    \/ SenderLoop
    \/ \E d \in {0, 1} : Cleanup(d)
    \/ Tick

SpecIds == InitIds /\ [][NextIds]_vars

\* the queue and the sender constructed and left alone
Quiet ==
    /\ EmptyStore
    /\ Started
    /\ script = <<>>
    /\ srv_ok = FALSE
    /\ max_retries = DefaultRetries
    /\ max_concurrent_sends = DefaultConcurrent
    /\ lim = [items |-> 0, time |-> 0, spawns |-> 0, manual |-> 0,
              outcomes |-> {Http(200)}]

\* the segmenter listening to any sequence of speech and silence chunks,
\* a read of the device failing and VAD.stop() called at any moment
InitVad ==
    /\ Quiet
    /\ vad = start_listening(VAD)
    /\ ms = 0
    /\ vpc = [loop |-> "top", stop |-> "none"]
    /\ wavs = {}
    /\ sink = <<>>
    /\ heard = <<>>
    /\ tasks = {}
    /\ tr = NoTranscriber
    /\ counter_file = NULL
    /\ written = <<>>
    /\ result = NoResult
    /\ setup = [whisper_backend |-> Primary, loadable |-> {Primary}]
    /\ orch = WhisperTranscriber

NextVad ==
    \/ recording_loop
    \/ ReadError
    \/ vad_stop

SpecVad == InitVad /\ [][NextVad]_vars

\* the transcriber constructed with any backend setting on a machine where
\* any of the backends load, recordings handed to it, the process killed and
\* started again
InitTranscriber ==
    /\ Quiet
    /\ vad = start_listening(VAD)
    /\ ms = 0
    /\ vpc = [loop |-> "top", stop |-> "none"]
    /\ wavs = {}
    /\ sink = <<>>
    /\ heard = <<>>
    /\ tasks = {}
    /\ tr = NoTranscriber
    /\ counter_file = NULL
    /\ written = <<>>
    /\ result = NoResult
    /\ setup \in [whisper_backend : BackendNames, loadable : SUBSET Backends]
    /\ orch = WhisperTranscriber

NextTranscriber ==
    \/ Transcriber
    \/ Recording
    \/ process_audio
    \/ Crash

SpecTranscriber == InitTranscriber /\ [][NextTranscriber]_vars

\* the program after start(): the segmenter listening, the transcriber
\* constructed with its primary backend, the event loop running the tasks,
\* and stop() called at any moment
InitPipeline ==
    /\ Quiet
    /\ vad = start_listening(VAD)
    /\ ms = 0
    /\ vpc = [loop |-> "top", stop |-> "none"]
    /\ wavs = {}
    /\ sink = <<>>
    /\ heard = <<>>
    /\ tasks = {}
    /\ counter_file = NULL
    /\ written = <<>>
    /\ result = NoResult
    /\ setup = [whisper_backend |-> Primary, loadable |-> {Primary}]
    /\ tr = constructed
    /\ orch = WhisperTranscriber

NextPipeline ==
    \/ recording_loop
    \/ process_audio
    \/ stop

SpecPipeline == InitPipeline /\ [][NextPipeline]_vars

\* two records in the store and a server whose answer may be any success
\* or failure _send_transcript tells apart
InitFrame ==
    /\ queue = Backlog(2)
    /\ next_id = 3
    /\ Started
    /\ Idle
    /\ script = <<>>
    /\ srv_ok = FALSE
    /\ max_retries = MainRetries
    /\ max_concurrent_sends = MainConcurrent
    /\ lim = [items |-> 2, time |-> FrameTime, spawns |-> FrameSpawns,
              manual |-> 0,
              outcomes |-> {Http(200), Http(400), Http(503), ConnectionError,
                            Timeout, Unexpected}]

SpecFrame == InitFrame /\ [][NextSend]_vars

\* send threads racing on one record that failed before or not, started by
\* the sender loop, by retry_item and by force_send, while the probe reports
\* online and the server answers 200 or 503
InitRace ==
    /\ max_retries = MainRetries
    /\ max_concurrent_sends = MainConcurrent
    /\ queue \in {FailedStore(n) : n \in 0..(MainRetries - 1)}
    /\ next_id = 2
    /\ Started
    /\ Idle
    /\ script = <<>>
    /\ srv_ok = FALSE
    /\ lim = [items |-> 1, time |-> 0, spawns |-> RaceSpawns,
              manual |-> RaceManual, outcomes |-> {Http(200), Http(503)}]

NextRace ==
    \/ SendThread
    \/ ProbeOnline
    \/ SenderLoop
    \/ \E id \in Ids : force_send(id)
    \/ \E id \in Ids : retry_item(id)

SpecRace == InitRace /\ [][NextRace]_vars

\* one record in the store of a running process whose probe reports online
\* and whose server answers every POST, with 200 or with 503
InitLive ==
    /\ queue = Backlog(1)
    /\ next_id = 2
    /\ Started
    /\ Idle
    /\ script = <<>>
    /\ srv_ok = FALSE
    /\ max_retries = DefaultRetries
    /\ max_concurrent_sends = MainConcurrent
    /\ lim = [items |-> 1, time |-> 0, spawns |-> LiveSpawns, manual |-> 0,
              outcomes |-> {Http(200), Http(503)}]

NextLive ==
    \/ SendThread
    \/ ProbeOnline
    \/ SenderLoop

\* every thread is scheduled again and again: a send thread that can take a
\* step takes one (session.post returns or times out), the connectivity
\* loop probes and the sender loop wakes up from its sleep
SpecLive ==
    /\ InitLive
    /\ [][NextLive]_vars
    /\ WF_vars(SendThread)
    /\ WF_vars(ProbeOnline)
    /\ WF_vars(SenderLoop)

\* the whole program shortly after start(): one record waits in the store,
\* the sender's loops and the segmenter run, and stop() is called at any
\* moment, once or twice
InitShutdown ==
    /\ queue = Backlog(1)
    /\ next_id = 2
    /\ Started
    /\ script = <<>>
    /\ srv_ok = FALSE
    /\ max_retries = MainRetries
    /\ max_concurrent_sends = MainConcurrent
    /\ lim = [items |-> 1, time |-> 0, spawns |-> ShutdownSpawns, manual |-> 0,
              outcomes |-> {Http(200), Http(503)}, capture |-> ShutdownCaptureMs]
    /\ vad = start_listening(VAD)
    /\ ms = 0
    /\ vpc = [loop |-> "top", stop |-> "none"]
    /\ wavs = {}
    /\ sink = <<>>
    /\ heard = <<>>
    /\ tasks = {}
    /\ counter_file = NULL
    /\ written = <<>>
    /\ result = NoResult
    /\ setup = [whisper_backend |-> Primary, loadable |-> {Primary}]
    /\ tr = constructed
    /\ orch = WhisperTranscriber

\* a recording that stop() finds is shorter than min_recording_duration_ms
\* in so short a run
NextShutdown ==
    \/ SendThread
    \/ ConnectivityLoop
    \/ SenderLoop
    \/ SenderLoopExit
    \/ LoopTop
    \/ ReadChunk
    \/ Stop
    \/ StopTest
    \/ StopCheck("stop")
    \/ StopDuration("stop")
    \/ StopDiscard("stop")
    \/ StopJoin
    \/ StopSender
    \/ StopAgain
    \/ SignalInStop

SpecShutdown == InitShutdown /\ [][NextShutdown]_vars

-----------------------------------------------------------------------------
(* Properties *)

Terminal == {"sent", "failed_permanent"}

\* send threads inside _send_transcript
InFlight == {t \in Running : t.pc \in {"mark", "post", "handle"}}

InFlightCount == BagCardinality([t \in InFlight |-> threads[t]])

\* C1: once a row is sent or failed_permanent its status changes only in a
\* step that is retry_item (reset_attempts) on that row.
C1_TerminalStaysTerminal ==
    [][\A i \in Ids :
          (/\ queue[i].status \in Terminal
           /\ i \in DOMAIN queue'
           /\ queue'[i].status # queue[i].status) => retry_item(i)]_vars

\* C2: a row that is not failed_permanent has attempts <= max_retries.
C2_AttemptsBounded ==
    \A i \in Ids :
        queue[i].status # "failed_permanent" => queue[i].attempts <= max_retries

\* C3: when the dispatch loop takes next_pending(), the row it gets is pending
\* and its next_retry is null or not in the future.
C3_DispatchOnlyEligible ==
    dpc = "first" =>
        \A k \in 1..Len(get_next_pending) :
            LET r == queue[get_next_pending[k]]
            IN  /\ r.status = "pending"
                /\ (r.next_retry = NULL \/ r.next_retry <= now)

\* C4: the step that handles a 400 answer leaves the row failed_permanent with
\* attempts = max_retries.
C4_ClientErrorIsPermanent ==
    [][\A t \in Running :
          (Handle(t) /\ t.resp = Http(400) /\ RowFound(queue, t.item)) =>
              /\ queue'[t.item].status = "failed_permanent"
              /\ queue'[t.item].attempts = max_retries]_vars

\* C5: never more than max_concurrent_sends send threads are inside
\* _send_transcript at once.
C5_ConcurrencyCap == InFlightCount <= max_concurrent_sends

\* C6: a send thread marks its row sending (the start of a send attempt) only
\* while is_online holds.
C6_NoSendWhileOffline ==
    [][\A t \in Running :
          (MarkSending(t) /\ RowFound(queue, t.item)) => is_online]_vars

\* C7: after a restart no row is left in status sending.
C7_StartupSweep ==
    [][Restart => \A i \in DOMAIN queue' : queue'[i].status # "sending"]_vars

\* number of POSTs the scripted server has answered
Answered == 3 - Len(script)

\* C8: with answers 503, 503, 200 the row is pending with attempts = the number
\* of answers so far (next_retry = time of failure + attempts * base_delay for
\* attempts 1 and 2), sending with attempts one more than the answers until the
\* answer is handled, and sent with attempts = 3; it never fails permanently.
C8_TransientHistory ==
    \A i \in Ids :
        LET r == queue[i]
        IN  /\ r.status # "failed_permanent"
            /\ r.status = "pending" =>
                  /\ r.attempts = Answered
                  /\ Answered < 3
                  /\ Answered = 0 => r.next_retry = NULL
                  /\ Answered > 0 =>
                        /\ r.next_retry >= 2 * base_retry_delay * r.attempts
                        /\ r.next_retry <= now + 2 * base_retry_delay * r.attempts
            /\ r.status = "sending" => r.attempts \in {Answered, Answered + 1}
            /\ r.status = "sent" => (r.attempts = 3 /\ Answered = 3)

\* a send of row i is between its POST and the handling of the answer
Busy(i) == \E t \in Running : t.item = i /\ t.pc \in {"post", "handle"}

\* C9: against a server that answers 200, a row that was marked sending and has
\* no POST under way is sent with response 200; with one row in the store, once
\* the started send threads have ended get_stats gives sent = 1, pending = 0;
\* and a sent row is never pending or failed_permanent afterwards.
C9_RoundTrip ==
    /\ [](\A i \in Ids :
            (queue[i].attempts > 0 /\ ~Busy(i)) =>
                (queue[i].status = "sent" /\ queue[i].response = 200))
    /\ []((Cardinality(Ids) = 1 /\ spawned > 0 /\ threads = EmptyBag) =>
            (/\ get_stats.sent = 1
             /\ get_stats.pending = 0
             /\ get_stats.failed_permanent = 0
             /\ get_stats.total = 1))
    /\ [][\A i \in Ids :
            queue[i].status = "sent" =>
                (/\ i \in DOMAIN queue'
                 /\ queue'[i].status \notin {"pending", "failed_permanent"})]_vars

C9_Witness ==
    /\ Cardinality(Ids) = 1
    /\ spawned > 0
    /\ threads = EmptyBag
    /\ \A i \in Ids : queue[i].status = "sent" /\ queue[i].response = 200

\* C10: a send thread POSTs and handles an answer (mark_as_sent, mark_as_failed)
\* only after its own mark_as_sending succeeded; a thread whose mark_as_sending
\* failed goes straight to the end.
C10_MarkSendingFirst ==
    /\ [](\A t \in Running : t.pc \in {"post", "handle"} => t.marked)
    /\ [][\A t \in Running :
            (t.pc = "mark" /\ MarkSending(t) /\ ~RowFound(queue, t.item)) =>
                (/\ queue' = queue
                 /\ \E u \in BagToSet(threads') : u.pc = "dec_rd" /\ ~u.marked)]_vars

C10_Witness == \E t \in Running : t.pc = "dec_rd" /\ ~t.marked

\* a send thread was started for row i at least once (the loops never reset
\* attempts and every started thread marks its row before it ends)
Dispatched(i) == queue[i].attempts > 0 \/ \E t \in Running : t.item = i

\* C11: of two records, the one created later is never dispatched by the
\* sender loop before the one created earlier: whenever a send thread was
\* started for b, one was started for every a with a.created_at < b.created_at.
C11_FifoFirstDispatch ==
    \A a \in Ids : \A b \in Ids :
        (queue[a].created_at < queue[b].created_at /\ Dispatched(b)) => Dispatched(a)

C11_Witness ==
    \E a \in Ids : \E b \in Ids :
        /\ queue[a].created_at < queue[b].created_at
        /\ queue[a].status = "pending"
        /\ queue[a].attempts > 0
        /\ \E t \in Running : t.item = b /\ t.pc = "inc_rd"

\* pending rows that were never attempted
FirstAttempt == {x \in Ids : queue[x].status = "pending" /\ queue[x].attempts = 0}

\* C12: when a dispatch tick is past its concurrency check and a pending row
\* with attempts = 0 exists, the row taken for the first-attempt slot is the
\* oldest such row, never a row with attempts > 0.
C12_FirstSlotIsFirstAttempt ==
    (dpc = "first" /\ FirstAttempt # {}) =>
        get_next_pending = <<Head(OrderByCreated(FirstAttempt))>>

\* this step starts a send thread for row i
StartsThread(i) == CopiesIn(Thread(i), threads') > CopiesIn(Thread(i), threads)

\* the oldest rows of status pending
OldestPending ==
    {x \in Ids : /\ queue[x].status = "pending"
                 /\ \A y \in Ids : queue[y].status = "pending" =>
                        queue[x].created_at <= queue[y].created_at}

\* C13 as stated: once a dispatch tick has run to its end after the probe
\* turned online, a send thread has been started for every one of the records
\* that were added while offline.
C13_AllSendingAfterOneTick ==
    (dpc = "sleep" /\ spawned > 0) => \A i \in Ids : Dispatched(i)

\* C13 amended: no send thread is started while the sender is offline; once
\* online, a step of the dispatch loop starts the first attempt of at most one
\* row, the oldest pending one; and a row is marked sending only after every
\* older row was.
C13_OnePerTickInOrder ==
    /\ [](~is_online => spawned = 0)
    /\ [][\A i \in Ids :
            (StartsThread(i) /\ queue[i].attempts = 0) =>
                /\ i \in OldestPending
                /\ spawned' = spawned + 1]_vars
    /\ [](\A a \in Ids : \A b \in Ids :
            (queue[a].created_at < queue[b].created_at /\ queue[b].attempts > 0) =>
                queue[a].attempts > 0)

C13_Witness ==
    /\ is_online
    /\ Cardinality(Ids) = 3
    /\ \E a \in Ids : \E b \in Ids :
          /\ queue[a].created_at < queue[b].created_at
          /\ queue[a].attempts > 0
          /\ queue[b].attempts > 0

\* the statuses the claim calls retryable
RetryableStatus(c) == c = 408 \/ c = 429 \/ (500 <= c /\ c < 600)

C15_ConnectionErrorGoesOffline ==
    /\ [][\A t \in Running :
            (Handle(t) /\ t.resp = ConnectionError /\ RowFound(queue, t.item)) =>
                /\ ~is_online'
                /\ queue'[t.item].last_error = "connection_error"
                /\ queue'[t.item].attempts = queue[t.item].attempts
                /\ queue'[t.item].status =
                      IF queue[t.item].attempts >= max_retries
                      THEN "failed_permanent" ELSE "pending"]_vars
    /\ [][(dpc = "sleep" /\ dpc' # "sleep") => is_online]_vars
    /\ [][(~is_online /\ is_online') => ConnectivityLoop]_vars

C15_Witness ==
    /\ ~is_online
    /\ dpc = "sleep"
    /\ \E i \in Ids : queue[i].last_error = "connection_error"

\* the answer is one that _send_transcript reports with mark_as_failed
Failure(r) == r.kind # "http" \/ RaisesHTTPError(r.code)

\* min(base_delay * 2^(n-1), max_delay) of the claims, in half seconds
ClaimedDelay(n) ==
    IF n >= 1
    THEN 2 * Min(base_retry_delay * Pow2(n - 1), max_retry_delay)
    ELSE Min(base_retry_delay, 2 * max_retry_delay)

\* C16: mark_as_failed never changes attempts; a row whose attempts reached
\* max_retries becomes failed_permanent (so the failure of attempt number
\* max_retries is permanent), any other row becomes pending with
\* next_retry = now + min(base_delay * 2^(attempts-1), max_delay).
C16_MarkFailed ==
    [][\A t \in Running :
          (Handle(t) /\ Failure(t.resp) /\ RowFound(queue, t.item)) =>
              LET r == queue[t.item]
                  r2 == queue'[t.item]
              IN  /\ r2.attempts = r.attempts
                  /\ r.attempts >= max_retries =>
                        (r2.status = "failed_permanent" /\ r2.next_retry = r.next_retry)
                  /\ r.attempts < max_retries =>
                        /\ r2.status = "pending"
                        /\ r2.next_retry = now + ClaimedDelay(r.attempts)]_vars

C16_Witness ==
    \E i \in Ids :
        /\ queue[i].status = "failed_permanent"
        /\ queue[i].attempts = max_retries
        /\ queue[i].last_error = "timeout"

\* C17: the delay a failure with attempts = n >= 1 sets is
\* min(base_delay * 2^(n-1), max_delay): base_delay for n = 1, max_delay as
\* soon as base_delay * 2^(n-1) reaches it, and never smaller than the delay
\* of the row's previous failure (read off next_retry while the clock is 0).
C17_BackoffDelay ==
    [][\A t \in Running :
          (/\ Handle(t) /\ Failure(t.resp) /\ RowFound(queue, t.item)
           /\ queue[t.item].attempts >= 1
           /\ queue'[t.item].status = "pending") =>
              LET n == queue[t.item].attempts
                  delay == queue'[t.item].next_retry - now
              IN  /\ delay = ClaimedDelay(n)
                  /\ n = 1 => delay = 2 * base_retry_delay
                  /\ base_retry_delay * Pow2(n - 1) >= max_retry_delay =>
                        delay = 2 * max_retry_delay
                  /\ delay <= 2 * max_retry_delay
                  /\ (now = 0 /\ queue[t.item].next_retry # NULL) =>
                        delay >= queue[t.item].next_retry]_vars

C17_Witness ==
    \E i \in Ids :
        /\ queue[i].status = "pending"
        /\ queue[i].last_error = "timeout"
        /\ base_retry_delay * Pow2(queue[i].attempts - 1) > max_retry_delay
        /\ queue[i].next_retry = now + 2 * max_retry_delay

C19_ResetAttempts ==
    [][\A i \in Ids :
          retry_item(i) =>
              /\ queue'[i].status = "pending"
              /\ queue'[i].attempts = 0
              /\ queue'[i].last_error = NoError
              /\ queue'[i].next_retry = NULL
              /\ queue'[i].created_at = queue[i].created_at
              /\ queue'[i].sent_at = queue[i].sent_at
              /\ queue'[i].response = queue[i].response
              /\ reset_attempts(queue', i) = queue']_vars

\* a delivered row that was reset: pending, never attempted, response kept
C19_Witness ==
    \E i \in Ids :
        /\ queue[i].status = "pending"
        /\ queue[i].attempts = 0
        /\ queue[i].response = 200
        /\ manual > 0

\* C20: a row leaves the store only in a cleanup step; cleanup(days) removes
\* the rows that are sent with sent_at before now - days, as many as it
\* reports, and leaves every other row in the store, unchanged.
C20_OnlyCleanupDeletes ==
    /\ [][\A i \in Ids :
            i \notin DOMAIN queue' =>
                \E d \in {0, 1} :
                    /\ Cleanup(d)
                    /\ queue[i].status = "sent"
                    /\ queue[i].sent_at < now - d]_vars
    /\ [][\A d \in {0, 1} :
            Cleanup(d) =>
                /\ \A i \in Ids :
                      (queue[i].status # "sent" \/ queue[i].sent_at >= now - d) =>
                          (i \in DOMAIN queue' /\ queue'[i] = queue[i])
                /\ \A i \in Ids :
                      (queue[i].status = "sent" /\ queue[i].sent_at < now - d) =>
                          i \notin DOMAIN queue'
                /\ removed_count(d) = Cardinality(Ids) - Cardinality(DOMAIN queue')]_vars

\* the delivered row was removed by cleanup
C20_Witness == Ids = {} /\ manual > 0

\* C21: an add inserts exactly one row, pending with attempts = 0 and nothing
\* else set (the item add_transcript returns); get_stats then counts one
\* more row in total and one more pending; no row that was there changes.
C21_AddInsertsOnePending ==
    [][AddTranscript =>
          /\ Cardinality(DOMAIN queue') = Cardinality(Ids) + 1
          /\ \A i \in DOMAIN queue' \ Ids :
                /\ queue'[i].status = "pending"
                /\ queue'[i].attempts = 0
                /\ queue'[i].last_error = NoError
                /\ queue'[i].next_retry = NULL
                /\ queue'[i].sent_at = NULL
                /\ queue'[i].response = NULL
          /\ \A i \in Ids : i \in DOMAIN queue' /\ queue'[i] = queue[i]
          /\ get_stats'.total = get_stats.total + 1
          /\ get_stats'.pending = get_stats.pending + 1
          /\ get_stats'.sending = get_stats.sending
          /\ get_stats'.sent = get_stats.sent
          /\ get_stats'.failed_permanent = get_stats.failed_permanent]_vars

\* a second record was added while the first was already delivered
C21_Witness ==
    /\ get_stats.total = 2
    /\ get_stats.sent = 1
    /\ get_stats.pending = 1
    /\ \E i \in Ids : queue[i].status = "pending" /\ queue[i].attempts = 0

\* ids are numbered by the insertion at which _generate_id first gave them, so
\* a row whose insertion rank is not its id carries the id of an earlier row
FirstUse(i) == queue[i].created_at = i

\* C22: no two rows ever have the same id, the rows cleanup has removed
\* included; and a row that is in the table is never changed by an add.
C22_IdsNeverReused ==
    /\ [](\A i \in Ids : FirstUse(i))
    /\ [][AddTranscript => \A i \in Ids : i \in DOMAIN queue' /\ queue'[i] = queue[i]]_vars

\* C23: retry_item(id) resets the row and, when online, starts a send for it
\* at once; force_send(id) starts a send without changing the row; for an id
\* that is not in the table both return failure and start no send, and
\* neither starts a send while offline.
C23_ManualSends ==
    [][\A id \in 1..next_id :
          /\ retry_item(id) =>
                /\ id \in Ids =>
                      /\ queue'[id].status = "pending"
                      /\ queue'[id].attempts = 0
                      /\ is_online => StartsThread(id)
                /\ id \notin Ids => ~retry_item_returns(id) /\ queue' = queue
                /\ (id \notin Ids \/ ~is_online) => threads' = threads
          /\ force_send(id) =>
                /\ queue' = queue
                /\ (id \in Ids /\ is_online) => StartsThread(id)
                /\ id \notin Ids => ~force_send_returns(id)
                /\ (id \notin Ids \/ ~is_online) => threads' = threads]_vars

\* retry_item, called while online, has reset the delivered row and a send
\* thread runs for it
C23_Witness ==
    /\ manual > 0
    /\ is_online
    /\ queue[1].status = "pending"
    /\ queue[1].attempts = 0
    /\ Thread(1) \in Running

\* the files on_audio_ready was called with
Emitted == {sink[k] : k \in DOMAIN sink}

\* no thread is inside _stop_recording
NoStopRunning ==
    /\ vpc.loop \in {"none", "top", "read", "done"}
    /\ vpc.stop \in {"none", "test", "join", "stopped", "raised"}

\* recording n is over
Finalized(n) ==
    \/ n < vad.audio_counter
    \/ n = vad.audio_counter /\ ~vad.is_recording /\ NoStopRunning

\* C24: a recording is emitted (its WAV written, on_audio_ready called with
\* it) exactly when the speech captured in it lasts at least
\* min_recording_duration_ms: a burst shorter than that, followed by the
\* silence that ends the recording, emits nothing; a longer one emits its WAV.
C24_EmittedIffLongEnough ==
    \A n \in DOMAIN heard :
        /\ n \in Emitted \cup wavs => heard[n] >= min_recording_duration_ms
        /\ (Finalized(n) /\ heard[n] >= min_recording_duration_ms) =>
               n \in Emitted /\ n \in wavs

\* C25: for every interleaving of the recording thread with VAD.stop(),
\* on_audio_ready is called exactly once for each finished recording that
\* was saved, always with the file of a saved recording, and never twice
\* with the same one.
C25_SinkOncePerUtterance ==
    /\ \A j \in DOMAIN sink : \A k \in DOMAIN sink : j # k => sink[j] # sink[k]
    /\ \A k \in DOMAIN sink : sink[k] \in wavs
    /\ \A n \in wavs : Finalized(n) => n \in Emitted

\* empty or whitespace-only
Blank(text) == text \in {"", " "}

\* C27: whenever transcribe_audio ends, by returning a record, by returning
\* None or by raising, its input WAV is no longer in temp_dir; and it
\* returns None exactly when the backend's text is empty or whitespace-only.
C27_TranscribeRemovesWav ==
    [][((TranscribeAudio \/ ReturnRecord) /\ tr'.pc = "idle") =>
          /\ result'.file \notin wavs'
          /\ result'.out \in {"record", "None", "raise"}
          /\ result'.out = "None" <=> Blank(result'.text)
          /\ result'.out = "record" => result'.text = "hi"]_vars

\* a whitespace-only text ended in None with the WAV removed, after another
\* call had returned a record
C27_Witness ==
    /\ result.out = "None"
    /\ result.text = " "
    /\ result.file \notin wavs
    /\ written # <<>>

\* C28: the transcripts are numbered 1, 2, 3, ... in the order they are
\* written, over kills and restarts of the process and failed writes of the
\* counter file: no number is skipped and none is used twice.
C28_CounterGapFree == \A k \in DOMAIN written : written[k] = k

\* the configured backend did not load
ConfiguredFails == ~(setup.whisper_backend \in Backends /\ Loads(setup.whisper_backend))

\* C29: when the configured backend fails to load, the primary backend is
\* tried exactly once; when that fails too, also when it was the configured
\* one, __init__ ends with an error and never with a Transcriber that has
\* no model.
C29_FallbackOrFatal ==
    (tr.state # "none" /\ ConfiguredFails) =>
        /\ Cardinality({k \in DOMAIN tr.tried : tr.tried[k] = Primary}) = 1
        /\ ~Loads(Primary) => tr.state = "fatal"
        /\ tr.state = "ready" => tr.whisper_model

\* stop() has returned and the recording thread has ended
CleanShutdown ==
    /\ orch.pc = "returned"
    /\ vpc.loop = "done"
    /\ tr.pc = "idle"

\* C26: every WAV the segmenter writes is deleted again, by the transcriber
\* or by a discard, whatever the callback and the transcription do: once the
\* program has shut down cleanly no audio_NNNN.wav is left in temp_dir.
C26_NoOrphanWav == CleanShutdown => wavs = {}

\* C30: stop() stops the segmenter, then the sender, then closes the queue,
\* in this order and each once, however often stop is requested.
C30_ShutdownOrder ==
    /\ \E n \in 0..3 : orch.stopped = SubSeq(<<"vad", "sender", "queue">>, 1, n)
    /\ orch.pc = "returned" => orch.stopped = <<"vad", "sender", "queue">>

\* stop() has been entered: is_running = False
ShutdownRequested == ~orch.is_running

\* the sender loop, the connectivity loop or the recording loop passes the
\* test of its while and goes on (a probe that finds the state it had
\* changes nothing and is not seen here)
BeginsIteration ==
    \/ dpc = "sleep" /\ dpc' = "cap"
    \/ ~is_online /\ is_online'
    \/ vpc.loop = "top" /\ vpc'.loop = "read"

\* C31: once shutdown has been requested, the capture loop, the connectivity
\* prober and the dispatcher finish at most the iteration they are in: none
\* of them begins another one, so the dispatcher starts no further send
C31_TasksEndOnShutdown == [][ShutdownRequested => ~BeginsIteration]_vars

\* C32: a send of item X that fails (connection error, timeout, HTTP error,
\* unexpected error) changes no row but X's, and leaves the sender loop where
\* it was, neither ended nor held up.
C32_FailureIsLocal ==
    [][\A t \in Running :
          (Handle(t) /\ Failure(t.resp)) =>
              /\ DOMAIN queue' = DOMAIN queue
              /\ \A y \in Ids \ {t.item} : queue'[y] = queue[y]
              /\ dpc' = dpc
              /\ d_retry' = d_retry
              /\ stop_flag' = stop_flag]_vars

\* every kind of failure has been handled for one row while the other row
\* was in the store
C32_Witness ==
    /\ Cardinality(Ids) = 2
    /\ \E i \in Ids : queue[i].last_error \in {"connection_error", "timeout", "unexpected_error", "http_error"}
                       /\ queue[i].status \in {"pending", "failed_permanent"}
    /\ \E y \in Ids : queue[y].last_error = NoError

\* the silence read since the last speech chunk of the recording that is on,
\* in milliseconds
TrailingSilence == ms - vad.recording_start_time - heard[vad.audio_counter]

\* the recording thread is inside the _stop_recording that silence set off
Finalizing == vpc.loop \in {"check", "duration", "discard", "save", "notify", "call", "reset"}

\* C33: as long as VAD.stop() is not called, a recording is finalized exactly
\* when silence_chunks chunks of silence in a row follow its last speech
\* chunk: while it goes on fewer have been read (a speech chunk starts the
\* count again), it is being finalized when exactly that many have, and it
\* ends in no other way.
C33_SilenceEndsRecording ==
    [][vpc.stop = "none" =>
          /\ (vad.is_recording /\ ~Finalizing) =>
                 TrailingSilence < silence_chunks * chunk_duration_ms
          /\ (vad.is_recording /\ Finalizing) =>
                 TrailingSilence = silence_chunks * chunk_duration_ms
          /\ (vad.is_recording /\ ~vad'.is_recording) => Finalizing]_vars

\* a recording that went on through silence, speech and silence again has
\* been finalized and the segmenter is idle
C33_Witness ==
    /\ vpc.stop = "none"
    /\ ~vad.is_recording
    /\ vad.audio_counter = 1
    /\ heard = <<60>>
    /\ ms = 90 + silence_chunks * chunk_duration_ms
    /\ sink = <<1>>

\* C34: as long as VAD.stop() is not called: the pre-roll (voice_buffer)
\* never holds more than silence_chunks chunks; when a recording starts,
\* the capture buffer (audio_buffer) is the pre-roll followed by the speech
\* chunk and the pre-roll is empty; when a recording is finalized both
\* buffers are empty, so that no chunk of it can enter the next recording.
C34_BuffersResetBetweenUtterances ==
    [][vpc.stop = "none" =>
          /\ vad'.voice_buffer <= silence_chunks
          /\ (~vad.is_recording /\ vad'.is_recording) =>
                 /\ vad'.audio_buffer = vad.voice_buffer + 1
                 /\ vad'.voice_buffer = 0
          /\ (vad.is_recording /\ ~vad'.is_recording) =>
                 /\ vad'.audio_buffer = 0
                 /\ vad'.voice_buffer = 0]_vars

\* on_audio_ready, called by the recording thread, returns without having
\* created a task
CallbackFails == vpc.loop = "call" /\ vpc'.loop = "reset" /\ tasks' = tasks

\* transcribe_audio raises and _process_audio logs the exception
TranscriptionFails == result' # result /\ result'.out = "raise"

\* the recording thread leaves _stop_recording after a callback that
\* created no task
ResetAfterFailure ==
    /\ vpc.loop = "reset"
    /\ vpc'.loop # "reset"
    /\ vad.current_audio_file \notin tasks

\* C35: while the program runs (stop() not entered), a failing sink callback
\* and a failing transcription are contained: nothing is enqueued for the
\* utterance, the recording thread does not end (it ends only once stop_flag
\* is set), the segmenter goes back to idle with both buffers empty, and the
\* transcriber is ready for the next task.
C35_FailuresContained ==
    [][/\ CallbackFails => queue' = queue /\ next_id' = next_id /\ tr' = tr
       /\ (orch.is_running /\ ResetAfterFailure) =>
              /\ vpc'.loop = "top"
              /\ ~vad'.is_recording
              /\ vad'.audio_buffer = 0
              /\ vad'.voice_buffer = 0
       /\ TranscriptionFails =>
              /\ queue' = queue /\ next_id' = next_id
              /\ tr'.state = "ready" /\ tr'.pc = "idle"
              /\ vad' = vad /\ vpc' = vpc
       /\ vpc'.loop = "done" => vad'.stop_flag]_vars

\* C36: when a read error has ended the recording loop (the loop is over
\* though VAD.stop() was not called), the segmenter is not recording, it
\* holds no current file, and no file of an unfinished recording is on disk.
C36_ReadErrorCleansUp ==
    (vpc.loop = "done" /\ vpc.stop = "none") =>
        /\ ~vad.is_recording
        /\ vad.current_audio_file = 0
        /\ \A n \in wavs : n \in Emitted

\* C37: with max_retries >= 1, in every state a pending row has
\* attempts < max_retries and a failed_permanent row has
\* attempts >= max_retries, whatever the send threads, retry_item and
\* force_send have done to it in whatever order.
C37_StatusMatchesAttempts ==
    max_retries >= 1 =>
        \A i \in Ids :
            /\ queue[i].status = "pending" => queue[i].attempts < max_retries
            /\ queue[i].status = "failed_permanent" => queue[i].attempts >= max_retries

\* two send threads have counted an attempt on a row that had failed once,
\* and the failure of one of them has made it failed_permanent while the
\* other is still running
C37_Witness ==
    \E i \in Ids :
        /\ queue[i].status = "failed_permanent"
        /\ queue[i].attempts > max_retries
        /\ \E t \in Running : t.item = i /\ t.marked

\* the send threads that have marked row i as sending and have not yet
\* written the outcome of their POST
Sending(i) == {t \in Running : t.item = i /\ t.pc \in {"post", "handle"}}

\* C38: no row is ever being sent by two threads at once: while a thread
\* has marked it sending and not yet finished, no second thread marks it
\* and POSTs it, whether the sender loop, retry_item or force_send started it.
C38_OneSendPerItem ==
    \A i \in Ids : BagCardinality([t \in Sending(i) |-> threads[t]]) <= 1

\* the send threads whose increment of active_sends is done and whose
\* decrement is not
Counted == {t \in Running : t.pc \in {"mark", "post", "handle", "dec_rd", "dec_wr"}}

\* C39: active_sends is the number of send threads that have incremented it
\* and not yet decremented it, however their increments and decrements
\* interleave; it is never negative, and it is 0 when no send thread runs.
C39_ActiveSendsCounts ==
    /\ active_sends = BagCardinality([t \in Counted |-> threads[t]])
    /\ active_sends >= 0
    /\ NThreads = 0 => active_sends = 0

\* the run has started all the send threads it may start
OutOfThreads == spawned = lim.spawns

\* C40: while the process runs, the probe reports online and every POST
\* returns, every row in the store reaches sent or failed_permanent (unless
\* the run comes to the end of its send threads first): none stays pending
\* or sending forever.
C40_EveryItemSettles ==
    \A i \in 1..1 :
        (i \in Ids) ~> (queue[i].status \in Terminal \/ OutOfThreads)

====
